---- MODULE Spec2Model ----
(***************************************************************************)
(* Visit check-in / check-out API (backend/src/server.js) over the visits  *)
(* table (backend/src/db.js).  Strings are sequences of one-character      *)
(* strings; JSON values of a request are tagged records.  Every await on   *)
(* pool.query is one step of a request: the statement runs atomically in   *)
(* the store at that step, and steps of different requests interleave.     *)
(* The free-text columns reason, comment, equipment_name,                  *)
(* maintenance_company and malfunction_type are copied from the body to    *)
(* the row and read by no query; they are left out of the rows.            *)
(***************************************************************************)
EXTENDS Integers, Sequences, FiniteSets, TLC

\* the server: the table, the clocks, the requests, the mail sent, the limiter
VARIABLES visits, now, reqs, mail, hits, clock
\* the visit form of one browser tab
VARIABLES techniciansFA, submitLockedUntil, countdownSeconds, submitAttemptTimes,
          countdownTimer, dateNow, sent, lastOp

serverVars == <<visits, now, reqs, mail, hits, clock>>
formVars == <<techniciansFA, submitLockedUntil, countdownSeconds, submitAttemptTimes,
              countdownTimer, dateNow, sent, lastOp>>
vars == <<serverVars, formVars>>

----------------------------------------------------------------------------
(* Bounds of the model *)

\* requests issued in one behaviour (a slot is used once, in arrival order)
MaxReqs == 2
\* last instant of the clock
MaxTime == 2
\* instants per UTC day
TicksPerDay == 2
\* instants of the limiter's clock per window of windowMs
TicksPerWindow == 2
\* last instant of the limiter's clock between two instants of the store's:
\* one window after the first
MaxClock == TicksPerWindow
\* rows of the technicians list of the form
MaxRows == 3
\* last instant of Date.now() in the form: MaxTime instants and a window
MaxDate == MaxTime + TicksPerWindow

----------------------------------------------------------------------------
(* Strings and JSON values *)

WhiteSpace == {" ", "\t"}

HexLower == <<"0","1","2","3","4","5","6","7","8","9","a","b","c","d","e","f">>
HexUpper == <<"0","1","2","3","4","5","6","7","8","9","A","B","C","D","E","F">>

\* String.prototype.trim
RECURSIVE TrimStart(_)
TrimStart(s) ==
  IF s # <<>> /\ Head(s) \in WhiteSpace THEN TrimStart(Tail(s)) ELSE s

RECURSIVE TrimEnd(_)
TrimEnd(s) ==
  IF s # <<>> /\ s[Len(s)] \in WhiteSpace
  THEN TrimEnd(SubSeq(s, 1, Len(s) - 1)) ELSE s

Trim(s) == TrimEnd(TrimStart(s))

\* String.prototype.split with a one-character separator
RECURSIVE Split(_, _)
Split(s, sep) ==
  IF \A i \in 1..Len(s) : s[i] # sep
  THEN <<s>>
  ELSE LET i == CHOOSE k \in 1..Len(s) :
                  s[k] = sep /\ \A j \in 1..(k - 1) : s[j] # sep
       IN <<SubSeq(s, 1, i - 1)>> \o Split(SubSeq(s, i + 1, Len(s)), sep)

\* .map((s) => s.trim())
MapTrim(a) == [i \in 1..Len(a) |-> Trim(a[i])]

\* Array.prototype.filter(Boolean) on an array of strings
FilterBoolean(a) == SelectSeq(a, LAMBDA x : x # <<>>)

\* a de-duplication that keeps the last occurrence of a name
RECURSIVE ArrayKeepLast(_)
ArrayKeepLast(a) ==
  IF a = <<>> THEN <<>>
  ELSE LET r == ArrayKeepLast(Tail(a))
       IN IF \E i \in 1..Len(r) : r[i] = Head(a) THEN r ELSE <<Head(a)>> \o r

\* Array.from(new Set(a)): first occurrences, in order
RECURSIVE ArrayFromSet(_)
ArrayFromSet(a) ==
  IF a = <<>> THEN <<>>
  ELSE LET r == ArrayFromSet(SubSeq(a, 1, Len(a) - 1))
           x == a[Len(a)]
       IN IF \E i \in 1..Len(r) : r[i] = x THEN r ELSE Append(r, x)

\* JSON values: type is one of undefined, null, string, number, object, array
Undefined == [type |-> "undefined", str |-> <<>>, arr |-> <<>>]
JsNull == [type |-> "null", str |-> <<>>, arr |-> <<>>]
JsObject == [type |-> "object", str |-> <<>>, arr |-> <<>>]
JsStr(s) == [type |-> "string", str |-> s, arr |-> <<>>]
JsNum(digits) == [type |-> "number", str |-> digits, arr |-> <<>>]
JsArr(a) == [type |-> "array", str |-> <<>>, arr |-> a]

\* String(v) of a value that is not an array
JsString(v) ==
  CASE v.type = "string" -> v.str
    [] v.type = "number" -> v.str
    [] v.type = "null" -> <<"n","u","l","l">>
    [] v.type = "undefined" -> <<"u","n","d","e","f","i","n","e","d">>
    [] OTHER -> <<"[","o","b","j","e","c","t"," ","O","b","j","e","c","t","]">>

\* JavaScript truthiness
Truthy(v) ==
  CASE v.type = "string" -> v.str # <<>>
    [] v.type = "number" -> v.str # <<"0">>
    [] v.type \in {"undefined", "null"} -> FALSE
    [] OTHER -> TRUE

----------------------------------------------------------------------------
(* The store: table visits of initDb *)

\* SQL NULL of a text column, and of a timestamptz column
NULL == <<"NULL">>
NullTs == <<>>
Ts(t) == <<t>>

\* DATE(ts AT TIME ZONE 'UTC')
UtcDate(t) == t \div TicksPerDay

LowerLetters ==
  <<"a","b","c","d","e","f","g","h","i","j","k","l","m",
    "n","o","p","q","r","s","t","u","v","w","x","y","z">>
UpperLetters ==
  <<"A","B","C","D","E","F","G","H","I","J","K","L","M",
    "N","O","P","Q","R","S","T","U","V","W","X","Y","Z">>

\* SQL UPPER(text)
UpperChar(c) ==
  IF \E i \in 1..26 : LowerLetters[i] = c
  THEN UpperLetters[CHOOSE i \in 1..26 : LowerLetters[i] = c]
  ELSE c
Upper(s) == [i \in 1..Len(s) |-> UpperChar(s[i])]

\* SQL COALESCE(x, d)
Coalesce(x, d) == IF x = NULL THEN d ELSE x

\* a query parameter bound to a text column: `v || null` as node-pg sends it
PgText(v) == IF Truthy(v) THEN JsString(v) ELSE NULL

IsXDigit(c) == \E i \in 1..16 : HexLower[i] = c \/ HexUpper[i] = c
LowerHex(c) == HexLower[CHOOSE i \in 1..16 : HexLower[i] = c \/ HexUpper[i] = c]

\* the uuid input function of the id column: sixteen bytes of two hex digits,
\* a hyphen allowed after every second byte, optional braces around the whole
RECURSIVE UuidScan(_, _, _)
UuidScan(s, p, i) ==
  IF i = 16 THEN [ok |-> TRUE, digits |-> <<>>, next |-> p]
  ELSE IF p + 1 > Len(s) \/ ~IsXDigit(s[p]) \/ ~IsXDigit(s[p + 1])
  THEN [ok |-> FALSE, digits |-> <<>>, next |-> p]
  ELSE LET q == p + 2
           q2 == IF q <= Len(s) /\ s[q] = "-" /\ i % 2 = 1 /\ i < 15
                 THEN q + 1 ELSE q
           rest == UuidScan(s, q2, i + 1)
       IN [ok |-> rest.ok,
           digits |-> <<LowerHex(s[p]), LowerHex(s[p + 1])>> \o rest.digits,
           next |-> rest.next]

\* the uuid output function: 8-4-4-4-12 in lower case
UuidOut(d) ==
  SubSeq(d, 1, 8) \o <<"-">> \o SubSeq(d, 9, 12) \o <<"-">> \o
  SubSeq(d, 13, 16) \o <<"-">> \o SubSeq(d, 17, 20) \o <<"-">> \o
  SubSeq(d, 21, 32)

\* text -> uuid; InvalidUuid stands for error 22P02 (invalid input syntax)
InvalidUuid == <<>>
PgUuidIn(s) ==
  LET braces == s # <<>> /\ s[1] = "{"
      r == UuidScan(s, IF braces THEN 2 ELSE 1, 0)
      endOk == IF braces
               THEN r.next = Len(s) /\ s[r.next] = "}"
               ELSE r.next = Len(s) + 1
  IN IF r.ok /\ endOk THEN UuidOut(r.digits) ELSE InvalidUuid

\* the n-th identifier crypto.randomUUID can return (version 4, variant 8)
Uuid(n) ==
  [i \in 1..36 |->
     IF i \in {9, 14, 19, 24} THEN "-"
     ELSE IF i = 15 THEN "4"
     ELSE IF i = 20 THEN "8"
     ELSE IF i = 36 THEN HexLower[10 + (n % 7)]
     ELSE IF i = 35 THEN HexLower[1 + (n \div 7)]
     ELSE "0"]

----------------------------------------------------------------------------
(* Configuration read from the environment *)

\* keys of NOTIFY_MATRIX (no OTHER entry): the sites that have recipients
NotifySites == {<<"A">>}

\* recipientsForSite(powerPlant).length > 0
HasRecipients(site) == site \in NotifySites

----------------------------------------------------------------------------
(* The visit form: pages/visit-form/visit-form.component.ts.  Date.now()
   is counted in instants, TicksPerWindow of them per windowMs.  The
   controls of the form other than the technicians rows are read by no
   guard of the handlers below, but for the status, which is taken to be
   set; the number of a technician row is left out of the rows. *)

\* null of submitLockedUntil and of countdownTimer
NullMs == -1

\* windowMs = 60_000, in instants
WindowMs == TicksPerWindow
\* windowMs in seconds
WindowSecs == 60
\* this.submitAttemptTimes.length >= 5
SubmitMax == 5

\* Math.max(0, x)
Max0(x) == IF x > 0 THEN x ELSE 0

\* Math.ceil(remainingMs / 1000)
CeilSecs(ms) == (ms * WindowSecs + TicksPerWindow - 1) \div TicksPerWindow

\* a row of the technicians FormArray: the name control and whether it
\* carries Validators.required
Row(name, required) == [name |-> name, required |-> required]
EmptyRow == Row(<<>>, FALSE)

\* the last handler that ran, what it did and the number of rows before it
Op(op, outcome) == [op |-> op, outcome |-> outcome, before |-> Len(techniciansFA)]

\* the component as constructed
FormInit ==
  /\ techniciansFA = <<Row(<<>>, TRUE)>>
  /\ submitLockedUntil = NullMs
  /\ countdownSeconds = 0
  /\ submitAttemptTimes = <<>>
  /\ countdownTimer = NullMs
  /\ dateNow = 0
  /\ sent = <<>>
  /\ lastOp = [op |-> "none", outcome |-> "", before |-> 1]

\* a lock check that never finds the form locked
IsSubmitLockedNever == FALSE

\* isSubmitLocked()
IsSubmitLocked == submitLockedUntil # NullMs /\ dateNow < submitLockedUntil

\* the limiter's fields
Limiter ==
  [until |-> submitLockedUntil, secs |-> countdownSeconds,
   times |-> submitAttemptTimes, timer |-> countdownTimer]

Released == [until |-> NullMs, secs |-> 0, times |-> <<>>, timer |-> NullMs]

\* tick() of the countdown that ends at `end`
TickAt(L, end) ==
  LET remainingMs == Max0(end - dateNow)
  IN IF remainingMs <= 0 THEN Released
     ELSE [L EXCEPT !.secs = CeilSecs(remainingMs)]

\* startCountdown(initialMs): the prior timer is cleared, tick() runs once,
\* setInterval starts the timer of this countdown
StartCountdown(L, initialMs) ==
  LET end == dateNow + initialMs
  IN [TickAt([L EXCEPT !.timer = NullMs], end) EXCEPT !.timer = end]

\* recordSubmitAttempt()
RecordSubmitAttempt(L) ==
  LET kept == SelectSeq(L.times, LAMBDA t : dateNow - t < WindowMs)
      times == Append(kept, dateNow)
      lockMs == Max0(WindowMs - (dateNow - times[1]))
  IN IF Len(times) >= SubmitMax /\ ~IsSubmitLocked
     THEN StartCountdown([L EXCEPT !.times = times, !.until = dateNow + lockMs], lockMs)
     ELSE [L EXCEPT !.times = times]

\* the limiter's fields after the step
SetLimiter(L) ==
  /\ submitLockedUntil' = L.until
  /\ countdownSeconds' = L.secs
  /\ submitAttemptTimes' = L.times
  /\ countdownTimer' = L.timer

\* this.form.invalid: a required name is empty
FormInvalid ==
  \E i \in 1..Len(techniciansFA) :
    techniciansFA[i].required /\ techniciansFA[i].name = <<>>

\* the technicians of the request: the trimmed names that are not empty
TechnicianNames ==
  FilterBoolean([i \in 1..Len(techniciansFA) |-> Trim(techniciansFA[i].name)])

\* onCheckIn(); a request is sent while a whole window is left of the time
\* the model follows
OnCheckIn ==
  /\ dateNow + WindowMs <= MaxDate
  /\ IF IsSubmitLocked
     THEN /\ lastOp' = Op("onCheckIn", "locked")
          /\ UNCHANGED <<submitLockedUntil, countdownSeconds, submitAttemptTimes,
                         countdownTimer, sent>>
     ELSE IF FormInvalid \/ TechnicianNames = <<>>
     THEN /\ lastOp' = Op("onCheckIn", "invalid")
          /\ UNCHANGED <<submitLockedUntil, countdownSeconds, submitAttemptTimes,
                         countdownTimer, sent>>
     ELSE /\ SetLimiter(RecordSubmitAttempt(Limiter))
          /\ sent' = Append(sent, dateNow)
          /\ lastOp' = Op("onCheckIn", "sent")
  /\ UNCHANGED <<serverVars, techniciansFA, dateNow>>

\* the callback of setInterval(tick, 500)
TimerTick ==
  /\ countdownTimer # NullMs
  /\ SetLimiter(TickAt(Limiter, countdownTimer))
  /\ lastOp' = Op("tick", IF dateNow >= countdownTimer THEN "released" ELSE "")
  /\ UNCHANGED <<serverVars, techniciansFA, dateNow, sent>>

\* Date.now() moves on
DateTick ==
  /\ dateNow < MaxDate
  /\ dateNow' = dateNow + 1
  /\ lastOp' = Op("time", "")
  /\ UNCHANGED <<serverVars, techniciansFA, submitLockedUntil, countdownSeconds,
                 submitAttemptTimes, countdownTimer, sent>>

\* the user types a name into row i
TypeName(i, name) ==
  /\ i \in 1..Len(techniciansFA)
  /\ techniciansFA' = [techniciansFA EXCEPT ![i].name = name]
  /\ lastOp' = Op("type", "")
  /\ UNCHANGED <<serverVars, submitLockedUntil, countdownSeconds, submitAttemptTimes,
                 countdownTimer, dateNow, sent>>

\* the rows change by handler op, the limiter is left alone
SetRows(rows, op, outcome) ==
  /\ techniciansFA' = rows
  /\ lastOp' = Op(op, outcome)
  /\ UNCHANGED <<serverVars, submitLockedUntil, countdownSeconds, submitAttemptTimes,
                 countdownTimer, dateNow, sent>>

\* FormArray.removeAt(index): a negative index counts from the end, and
\* Array.prototype.splice removes nothing past the end
RemoveAt(a, index) ==
  LET adjusted == IF index < 0 THEN Max0(index + Len(a)) ELSE index
  IN IF adjusted + 1 > Len(a) THEN a
     ELSE SubSeq(a, 1, adjusted) \o SubSeq(a, adjusted + 2, Len(a))

\* while (this.techniciansFA.length) this.techniciansFA.removeAt(0)
RECURSIVE RemoveAll(_)
RemoveAll(a) == IF Len(a) = 0 THEN a ELSE RemoveAll(RemoveAt(a, 0))

\* a removal without the guard on the length
RemoveUnguarded(a, index) == RemoveAt(a, index)

\* removeTechnician(index): the rows after it
RemoveGuarded(a, index) == IF Len(a) > 1 THEN RemoveAt(a, index) ELSE a

\* if (this.techniciansFA.length === 0) push an empty row
OrEmptyRow(a) == IF Len(a) = 0 THEN <<EmptyRow>> ELSE a

\* an object { name } as localStorage holds a technician row
JsTech(name) == [type |-> "object", str |-> name, arr |-> <<>>]

\* restorePersisted: name = t || ''
PersistedName(t) == IF Truthy(t) THEN JsString(t) ELSE <<>>

\* restoreLastIn, restoreLastSubmission:
\* name = typeof t === 'string' ? t : (t?.name || '')
SnapshotName(t) == IF t.type \in {"string", "object"} THEN t.str ELSE <<>>

\* the rows restorePersisted leaves, from the technicians of the stored data
PersistedRows(a, technicians) ==
  IF technicians.type = "array"
  THEN OrEmptyRow(RemoveAll(a) \o
         [i \in 1..Len(technicians.arr) |-> Row(PersistedName(technicians.arr[i]), FALSE)])
  ELSE a

\* the rows restoreLastIn and restoreLastSubmission leave, from the
\* technicians of the stored form
SnapshotRows(a, technicians) ==
  IF technicians.type = "array"
  THEN OrEmptyRow(RemoveAll(a) \o
         [i \in 1..Len(technicians.arr) |-> Row(SnapshotName(technicians.arr[i]), FALSE)])
  ELSE a

\* restoreLastIn with the stored snapshot d: nothing when there is none,
\* when it does not parse or when it has no form
LastInRows(a, d) == IF d.ok THEN SnapshotRows(a, d.technicians) ELSE a

\* restoreLastSubmission with the stored last IN and the stored last
\* submission: restoreLastIn, then the form of a submission of today, then
\* restoreLastIn again when that submission was OUT
LastSubmissionRows(a, dIn, dSub) ==
  LET r1 == LastInRows(a, dIn)
      r2 == SnapshotRows(r1, dSub.technicians)
  IN IF ~dSub.ok THEN r1
     ELSE IF dSub.status = "OUT" THEN LastInRows(r2, dIn)
     ELSE r2

\* addTechnician(); the rows are capped at MaxRows
AddTechnician ==
  /\ Len(techniciansFA) < MaxRows
  /\ SetRows(Append(techniciansFA, EmptyRow), "addTechnician", "")

\* removeTechnician(index)
RemoveTechnician(index) ==
  SetRows(RemoveGuarded(techniciansFA, index), "removeTechnician", "")

\* clearAll()
ClearAll == SetRows(Append(RemoveAll(techniciansFA), EmptyRow), "clearAll", "")

\* restorePersisted() with stored data d, for a form with a powerPlant
RestorePersisted(d) ==
  SetRows(IF d.ok THEN PersistedRows(techniciansFA, d.technicians) ELSE techniciansFA,
          "restorePersisted", "")

\* restoreLastIn(powerPlant), as startNewForm calls it
RestoreLastIn(d) ==
  SetRows(LastInRows(techniciansFA, d), "restoreLastIn", "")

\* restoreLastSubmission(powerPlant), as ngOnInit calls it
RestoreLastSubmission(dIn, dSub) ==
  SetRows(LastSubmissionRows(techniciansFA, dIn, dSub), "restoreLastSubmission", "")

\* what localStorage may hold as technicians: nothing, no array, arrays
\* that are empty, of names, of values that are no names, of rows
StoredTechnicians ==
  { Undefined, JsStr(<<"a">>), JsArr(<<>>),
    JsArr(<<JsStr(<<"a">>)>>),
    JsArr(<<JsNull, JsTech(<<"b">>)>>),
    JsArr(<<JsStr(<<>>), JsObject>>),
    JsArr([i \in 1..MaxRows |-> JsTech(<<"a">>)]) }

\* what localStorage may hold under a key: ok is false for no item, an
\* item that does not parse, one without form or one of another day
Stored ==
  {[ok |-> FALSE, technicians |-> Undefined, status |-> "IN"]} \cup
  {[ok |-> TRUE, technicians |-> t, status |-> st] :
     t \in StoredTechnicians, st \in {"IN", "OUT"}}

\* the names the user types
TypedNames == {<<>>, <<" ">>, <<"a">>}

----------------------------------------------------------------------------
(* Requests and responses *)

\* the slots of the requests of one behaviour
Reqs == DOMAIN reqs

\* the last segment of req.path, after /api/visits/
PathCheckin == <<"c","h","e","c","k","i","n">>
PathCheckout == <<"c","h","e","c","k","o","u","t">>
PathActiveSite == <<"a","c","t","i","v","e","-","s","i","t","e">>
PathActive == <<"a","c","t","i","v","e">>

\* a request: the client address, the path, and the fields of req.body and
\* req.query the handlers read
NoBody ==
  [ip |-> 1, path |-> <<>>,
   turbineId |-> Undefined, technicians |-> Undefined, powerPlant |-> Undefined,
   status |-> Undefined, visitId |-> Undefined]

NoResp ==
  [status |-> 0, error |-> "", visit |-> <<>>, coActivity |-> FALSE,
   visitId |-> <<>>, checkOut |-> NullTs, count |-> 0, visits |-> <<>>]

\* res.status(code).json({ error })
ErrorResp(code, msg) == [NoResp EXCEPT !.status = code, !.error = msg]

IdleReq ==
  [kind |-> "none", pc |-> "idle", body |-> NoBody, techs |-> <<>>,
   turbine |-> <<>>, id |-> <<>>, rows |-> <<>>, co |-> FALSE,
   resp |-> NoResp, uuid |-> InvalidUuid, sawActive |-> FALSE, at |-> 0]

\* requests received and not yet answered
InFlight == {q \in Reqs : reqs[q].pc \notin {"idle", "done"}}

\* slots are taken in arrival order, at most `limit` requests at a time
Arrives(r, limit) ==
  /\ reqs[r].pc = "idle"
  /\ IF r = 1 THEN TRUE ELSE reqs[r - 1].pc # "idle"
  /\ Cardinality(InFlight) < limit

----------------------------------------------------------------------------
(* perRouteLimiter: rateLimit({ windowMs, max, keyGenerator, handler }) with
   the default store, which keeps per key a hit count and the time the
   key's window ends *)

\* max: 5
RateMax == 5

\* a key generator that leaves out the path
KeyGeneratorIpOnly(b) == <<b.ip, <<>>>>

\* keyGenerator: `${ip}|${req.path}`
KeyGenerator(b) == <<b.ip, b.path>>

\* a store whose windows never end
LiveForever(h, t) == h

\* the entries of the store whose window has not ended at time t
LiveAt(h, t) == {e \in h : e.resetTime > t}

\* the entries of the store whose window has not ended
Live(h) == LiveAt(h, clock)

\* the hit count of a key after one more request
TotalHits(key) ==
  IF \E e \in Live(hits) : e.key = key
  THEN (CHOOSE e \in Live(hits) : e.key = key).totalHits + 1
  ELSE 1

\* the store after one more request with the key: the count of the key
\* goes up by one, in the window its first request opened
Increment(key) ==
  IF \E e \in Live(hits) : e.key = key
  THEN {IF e.key = key THEN [e EXCEPT !.totalHits = @ + 1] ELSE e : e \in Live(hits)}
  ELSE Live(hits) \cup {[key |-> key, totalHits |-> 1,
                         resetTime |-> clock + TicksPerWindow]}

\* the limiter lets the request through to the route handler
Admitted(b) == TotalHits(KeyGenerator(b)) <= RateMax

\* handler: res.status(429).json({ error })
TooMany == ErrorResp(429, "Too many submissions from this IP, please try again later.")

\* a limiter whose handler answers 429 and lets a check-out go on to its
\* route handler
LimitedPassesOn(q) ==
  IF Admitted(q.body)
  THEN [q EXCEPT !.at = clock]
  ELSE [q EXCEPT !.at = clock, !.resp = TooMany,
                 !.pc = IF q.kind = "checkout" THEN "update" ELSE "done"]

\* the request as the limiter leaves it: its arrival is recorded, and when
\* it is not admitted it is answered 429
Limited(q) ==
  IF Admitted(q.body)
  THEN [q EXCEPT !.at = clock]
  ELSE [q EXCEPT !.at = clock, !.pc = "done", !.resp = TooMany]

\* an identifier generator that repeats itself
RepeatedUUID == Uuid(1)

\* crypto.randomUUID(): an identifier no request has been given yet;
\* identifiers are interchangeable, so the first unused one is taken
RandomUUID ==
  Uuid(CHOOSE n \in Reqs :
         /\ \A o \in Reqs : reqs[o].id # Uuid(n)
         /\ \A m \in 1..(n - 1) : \E o \in Reqs : reqs[o].id = Uuid(m))

\* a row an earlier run of the server left in the table: checked in at
\* site A by one technician without a status, still active
SeedRow ==
  [id |-> Uuid(0), turbine_id |-> <<"S","I","T","E","-","A">>,
   technicians |-> <<<<"a">>>>, power_plant |-> <<"A">>,
   status |-> NULL, check_in |-> 0, check_out |-> NullTs]

\* CREATE TABLE IF NOT EXISTS: the table starts empty or as it was left
Init ==
  /\ visits \in {{}, {SeedRow}}
  /\ now = 0
  /\ reqs = [r \in 1..MaxReqs |-> IdleReq]
  /\ mail = {}
  /\ hits = {}
  /\ clock = 0
  /\ FormInit

\* the same start, over the table as it was left, with room for more
\* requests than the limiter admits
InitRate ==
  /\ visits = {SeedRow}
  /\ now = 0
  /\ reqs = [r \in 1..(RateMax + MaxReqs) |-> IdleReq]
  /\ mail = {}
  /\ hits = {}
  /\ clock = 0
  /\ FormInit

----------------------------------------------------------------------------
(* POST /api/visits/checkin *)

\* the fallback identifier of a visit without turbineId
Turbine(b) ==
  IF b.turbineId.type = "string" /\ Trim(b.turbineId.str) # <<>>
  THEN Trim(b.turbineId.str)
  ELSE IF Truthy(b.powerPlant)
       THEN <<"S","I","T","E","-">> \o JsString(b.powerPlant)
       ELSE <<"N","/","A">>

\* .map((t) => String(t).trim())
MapStringTrim(a) == [i \in 1..Len(a) |-> Trim(JsString(a[i]))]

\* a normalisation that leaves out .filter(Boolean)
TechsUnfiltered(technicians) ==
  IF technicians.type = "array"
  THEN MapStringTrim(technicians.arr)
  ELSE IF technicians.type = "string"
  THEN MapTrim(Split(technicians.str, ","))
  ELSE <<>>

\* the technicians of the body as a list of trimmed non-empty names
Techs(technicians) ==
  IF technicians.type = "array"
  THEN FilterBoolean(MapStringTrim(technicians.arr))
  ELSE IF technicians.type = "string"
  THEN FilterBoolean(MapTrim(Split(technicians.str, ",")))
  ELSE <<>>

\* the row INSERT INTO visits stores: check_in and check_out take the
\* column defaults now() and NULL
InsertRow(q) ==
  [id |-> q.id, turbine_id |-> q.turbine, technicians |-> q.techs,
   power_plant |-> PgText(q.body.powerPlant), status |-> PgText(q.body.status),
   check_in |-> now, check_out |-> NullTs]

\* a count that leaves out AND id <> $2
CoActivityRowsWithSelf(powerPlant, id) ==
  {v \in visits :
     /\ v.power_plant = JsString(powerPlant)
     /\ v.check_out = NullTs
     /\ Upper(Coalesce(v.status, <<"I","N">>)) = <<"I","N">>
     /\ UtcDate(v.check_in) = UtcDate(now)}

\* a count of the rows checked in before the row of the request
CoActivityRowsEarlier(powerPlant, id) ==
  {v \in visits :
     /\ v.power_plant = JsString(powerPlant)
     /\ v.check_out = NullTs
     /\ \E w \in visits : w.id = id /\ v.check_in < w.check_in
     /\ Upper(Coalesce(v.status, <<"I","N">>)) = <<"I","N">>
     /\ UtcDate(v.check_in) = UtcDate(now)}

\* the rows the co-activity SELECT COUNT(*) counts
CoActivityRows(powerPlant, id) ==
  {v \in visits :
     /\ v.power_plant = JsString(powerPlant)
     /\ v.check_out = NullTs
     /\ v.id # id
     /\ Upper(Coalesce(v.status, <<"I","N">>)) = <<"I","N">>
     /\ UtcDate(v.check_in) = UtcDate(now)}

\* res.status(201).json({ visit: rows[0], coActivity })
CheckinResp(q, co) ==
  [NoResp EXCEPT !.status = 201, !.visit = q.rows, !.coActivity = co]

\* lines 163-177 after the last query: await sendNotification, or answer
CheckinNotify(q, co) ==
  IF Truthy(q.body.powerPlant) /\ HasRecipients(JsString(q.body.powerPlant))
  THEN [q EXCEPT !.co = co, !.pc = "mail"]
  ELSE [q EXCEPT !.co = co, !.pc = "done", !.resp = CheckinResp(q, co)]

CheckinReceive(r, b, limit) ==
  /\ Arrives(r, limit)
  /\ LET techs == Techs(b.technicians)
         q == Limited([reqs[r] EXCEPT !.kind = "checkin", !.body = b])
     IN IF ~Admitted(b)
        THEN reqs' = [reqs EXCEPT ![r] = q]
        ELSE IF techs = <<>>
        THEN reqs' = [reqs EXCEPT ![r] =
               [q EXCEPT !.pc = "done",
                         !.resp = ErrorResp(400, "At least one technician name is required")]]
        ELSE reqs' = [reqs EXCEPT ![r] =
               [q EXCEPT !.pc = "insert", !.techs = ArrayFromSet(techs),
                         !.turbine = Turbine(b), !.id = RandomUUID]]
  /\ hits' = Increment(KeyGenerator(b))
  /\ UNCHANGED <<formVars, visits, now, mail, clock>>

\* an INSERT into a table with a unique index on the active rows of a
\* turbine: a second active row of the turbine is refused
CheckinInsertUnique(r) ==
  /\ reqs[r].kind = "checkin" /\ reqs[r].pc = "insert"
  /\ IF \E v \in visits : v.id = reqs[r].id
          \/ (v.turbine_id = reqs[r].turbine /\ v.check_out = NullTs)
     THEN /\ reqs' = [reqs EXCEPT ![r] =
                [@ EXCEPT !.pc = "done", !.resp = ErrorResp(500, "Internal server error")]]
          /\ UNCHANGED visits
     ELSE LET row == InsertRow(reqs[r])
              q == [reqs[r] EXCEPT !.rows = <<row>>]
          IN /\ visits' = visits \cup {row}
             /\ reqs' = [reqs EXCEPT ![r] =
                   IF Truthy(q.body.powerPlant)
                   THEN [q EXCEPT !.pc = "count"]
                   ELSE CheckinNotify(q, FALSE)]
  /\ UNCHANGED <<formVars, now, mail, hits, clock>>

CheckinInsert(r) ==
  /\ reqs[r].kind = "checkin" /\ reqs[r].pc = "insert"
  /\ IF \E v \in visits : v.id = reqs[r].id
     THEN /\ reqs' = [reqs EXCEPT ![r] =
                [@ EXCEPT !.pc = "done", !.resp = ErrorResp(500, "Internal server error")]]
          /\ UNCHANGED visits
     ELSE LET row == InsertRow(reqs[r])
              q == [reqs[r] EXCEPT !.rows = <<row>>]
          IN /\ visits' = visits \cup {row}
             /\ reqs' = [reqs EXCEPT ![r] =
                   IF Truthy(q.body.powerPlant)
                   THEN [q EXCEPT !.pc = "count"]
                   ELSE CheckinNotify(q, FALSE)]
  /\ UNCHANGED <<formVars, now, mail, hits, clock>>

CheckinCount(r) ==
  /\ reqs[r].kind = "checkin" /\ reqs[r].pc = "count"
  /\ LET cnt == Cardinality(CoActivityRows(reqs[r].body.powerPlant, reqs[r].id))
     IN reqs' = [reqs EXCEPT ![r] = CheckinNotify(reqs[r], cnt > 0)]
  /\ UNCHANGED <<formVars, visits, now, mail, hits, clock>>

\* the INSERT is rejected by the store (the connection is lost, the
\* statement times out): nothing is stored, the catch answers 500
CheckinInsertFails(r) ==
  /\ reqs[r].kind = "checkin" /\ reqs[r].pc = "insert"
  /\ reqs' = [reqs EXCEPT ![r] =
        [@ EXCEPT !.pc = "done", !.resp = ErrorResp(500, "Internal server error")]]
  /\ UNCHANGED <<formVars, visits, now, mail, hits, clock>>

\* the co-activity SELECT is rejected by the store: the catch answers 500
CheckinCountFails(r) ==
  /\ reqs[r].kind = "checkin" /\ reqs[r].pc = "count"
  /\ reqs' = [reqs EXCEPT ![r] =
        [@ EXCEPT !.pc = "done", !.resp = ErrorResp(500, "Internal server error")]]
  /\ UNCHANGED <<formVars, visits, now, mail, hits, clock>>

\* a notification step without the inner try/catch: a rejection reaches
\* the catch of the handler
CheckinMailUncaught(r) ==
  /\ reqs[r].kind = "checkin" /\ reqs[r].pc = "mail"
  /\ \E outcome \in {"sent", "failed"} :
       /\ mail' = mail \cup {[req |-> r, subject |-> "IN", id |-> reqs[r].id,
                               outcome |-> outcome]}
       /\ reqs' = [reqs EXCEPT ![r] =
             [@ EXCEPT !.pc = "done",
                       !.resp = IF outcome = "failed"
                                THEN ErrorResp(500, "Internal server error")
                                ELSE CheckinResp(reqs[r], reqs[r].co)]]
  /\ UNCHANGED <<formVars, visits, now, hits, clock>>

\* sendNotification settles, resolved or rejected; the rejection is caught
CheckinMail(r) ==
  /\ reqs[r].kind = "checkin" /\ reqs[r].pc = "mail"
  /\ \E outcome \in {"sent", "failed"} :
       mail' = mail \cup {[req |-> r, subject |-> "IN", id |-> reqs[r].id,
                           outcome |-> outcome]}
  /\ reqs' = [reqs EXCEPT ![r] =
        [@ EXCEPT !.pc = "done", !.resp = CheckinResp(reqs[r], reqs[r].co)]]
  /\ UNCHANGED <<formVars, visits, now, hits, clock>>

----------------------------------------------------------------------------
(* POST /api/visits/checkout *)

\* an UPDATE that leaves out AND check_out IS NULL
CheckoutMatchAnyRow(uuid) == {v \in visits : v.id = uuid}

\* UPDATE visits SET check_out = now() WHERE id = $1 AND check_out IS NULL:
\* the rows it matches
CheckoutMatch(uuid) == {v \in visits : v.id = uuid /\ v.check_out = NullTs}

\* an UPDATE that also writes the status column
CheckedOutWithStatus(v) ==
  [v EXCEPT !.check_out = Ts(now), !.status = <<"O","U","T">>]

\* SET check_out = now(): the row after the UPDATE
CheckedOut(v) == [v EXCEPT !.check_out = Ts(now)]

\* res.json({ visitId: rows[0].id, checkOut: rows[0].check_out })
CheckoutResp(q) ==
  [NoResp EXCEPT !.status = 200, !.visitId = q.rows[1].id,
                 !.checkOut = q.rows[1].check_out]

\* the parameter $1 as the store reads it for a uuid column
UuidParam(b) ==
  IF b.visitId.type = "string" THEN PgUuidIn(b.visitId.str) ELSE InvalidUuid

\* history: the visit the body names is in the store and active on arrival
TargetActive(b) ==
  \E v \in visits : v.id = UuidParam(b) /\ v.check_out = NullTs

CheckoutReceive(r, b, limit) ==
  /\ Arrives(r, limit)
  /\ LET q == Limited([reqs[r] EXCEPT !.kind = "checkout", !.body = b,
                                      !.uuid = UuidParam(b),
                                      !.sawActive = TargetActive(b)])
     IN reqs' = [reqs EXCEPT ![r] =
          IF ~Admitted(b)
          THEN q
          ELSE IF ~Truthy(b.visitId) \/ b.visitId.type # "string"
          THEN [q EXCEPT !.pc = "done", !.resp = ErrorResp(400, "visitId is required")]
          ELSE [q EXCEPT !.pc = "update"]]
  /\ hits' = Increment(KeyGenerator(b))
  /\ UNCHANGED <<formVars, visits, now, mail, clock>>

\* an UPDATE step that goes on to the notification when no row matched
CheckoutUpdateNoReturn(r) ==
  /\ reqs[r].kind = "checkout" /\ reqs[r].pc = "update"
  /\ LET uuid == reqs[r].uuid
         hit == CheckoutMatch(uuid)
     IN IF uuid = InvalidUuid
        THEN /\ reqs' = [reqs EXCEPT ![r] =
                   [@ EXCEPT !.pc = "done", !.resp = ErrorResp(500, "Internal server error")]]
             /\ UNCHANGED visits
        ELSE /\ visits' = (visits \ hit) \cup {CheckedOut(v) : v \in hit}
             /\ reqs' = [reqs EXCEPT ![r] =
                   [@ EXCEPT !.pc = "context",
                             !.rows = IF hit = {}
                                      THEN <<[id |-> uuid, check_out |-> NullTs]>>
                                      ELSE <<[id |-> uuid, check_out |-> Ts(now)]>>]]
  /\ UNCHANGED <<formVars, now, mail, hits, clock>>

CheckoutUpdate(r) ==
  /\ reqs[r].kind = "checkout" /\ reqs[r].pc = "update"
  /\ LET uuid == reqs[r].uuid
         hit == CheckoutMatch(uuid)
     IN IF uuid = InvalidUuid
        THEN /\ reqs' = [reqs EXCEPT ![r] =
                   [@ EXCEPT !.pc = "done", !.resp = ErrorResp(500, "Internal server error")]]
             /\ UNCHANGED visits
        ELSE IF hit = {}
        THEN /\ reqs' = [reqs EXCEPT ![r] =
                   [@ EXCEPT !.pc = "done",
                             !.resp = ErrorResp(404, "Active visit not found or already checked out")]]
             /\ UNCHANGED visits
        ELSE /\ visits' = (visits \ hit) \cup {CheckedOut(v) : v \in hit}
             /\ reqs' = [reqs EXCEPT ![r] =
                   [@ EXCEPT !.pc = "context",
                             !.rows = <<[id |-> uuid, check_out |-> Ts(now)]>>]]
  /\ UNCHANGED <<formVars, now, mail, hits, clock>>

\* SELECT power_plant, ... WHERE id = $1, then sendNotification or the
\* answer; when the SELECT fails the inner catch goes on to the answer
CheckoutContext(r) ==
  /\ reqs[r].kind = "checkout" /\ reqs[r].pc = "context"
  /\ \E loaded \in BOOLEAN :
       LET ctx == {v \in visits : v.id = reqs[r].uuid}
       IN reqs' = [reqs EXCEPT ![r] =
            IF loaded /\ \E v \in ctx : v.power_plant # NULL /\ HasRecipients(v.power_plant)
            THEN [@ EXCEPT !.pc = "mail"]
            ELSE [@ EXCEPT !.pc = "done", !.resp = CheckoutResp(reqs[r])]]
  /\ UNCHANGED <<formVars, visits, now, mail, hits, clock>>

CheckoutMail(r) ==
  /\ reqs[r].kind = "checkout" /\ reqs[r].pc = "mail"
  /\ \E outcome \in {"sent", "failed"} :
       mail' = mail \cup {[req |-> r, subject |-> "OUT", id |-> reqs[r].uuid,
                           outcome |-> outcome]}
  /\ reqs' = [reqs EXCEPT ![r] = [@ EXCEPT !.pc = "done", !.resp = CheckoutResp(reqs[r])]]
  /\ UNCHANGED <<formVars, visits, now, hits, clock>>

----------------------------------------------------------------------------
(* GET /api/visits/active-site *)

\* a SELECT that leaves out the condition on DATE(check_in)
ActiveSiteRowsAnyDay(powerPlant) ==
  {v \in visits :
     /\ v.power_plant = powerPlant
     /\ v.check_out = NullTs
     /\ Upper(Coalesce(v.status, <<"I","N">>)) = <<"I","N">>}

\* the rows the SELECT of the site query matches
ActiveSiteRows(powerPlant) ==
  {v \in visits :
     /\ v.power_plant = powerPlant
     /\ v.check_out = NullTs
     /\ Upper(Coalesce(v.status, <<"I","N">>)) = <<"I","N">>
     /\ UtcDate(v.check_in) = UtcDate(now)}

\* the columns the SELECT lists
ActiveSiteColumns(v) ==
  [id |-> v.id, turbine_id |-> v.turbine_id, technicians |-> v.technicians,
   check_in |-> v.check_in, check_out |-> v.check_out, power_plant |-> v.power_plant]

\* ORDER BY check_in DESC: any order of the rows with no later row before an earlier
OrderedByCheckInDesc(rows) ==
  {s \in [1..Cardinality(rows) -> rows] :
     /\ \A i, j \in DOMAIN s : i # j => s[i] # s[j]
     /\ \A i, j \in DOMAIN s : i < j => s[i].check_in >= s[j].check_in}

ActiveSiteReceive(r, b, limit) ==
  /\ Arrives(r, limit)
  /\ LET q == Limited([reqs[r] EXCEPT !.kind = "activeSite", !.body = b])
     IN reqs' = [reqs EXCEPT ![r] =
          IF ~Admitted(b)
          THEN q
          ELSE IF ~Truthy(b.powerPlant) \/ b.powerPlant.type # "string"
                  \/ Trim(b.powerPlant.str) = <<>>
          THEN [q EXCEPT !.pc = "done", !.resp = ErrorResp(400, "powerPlant is required")]
          ELSE [q EXCEPT !.pc = "select"]]
  /\ hits' = Increment(KeyGenerator(b))
  /\ UNCHANGED <<formVars, visits, now, mail, clock>>

ActiveSiteSelect(r) ==
  /\ reqs[r].kind = "activeSite" /\ reqs[r].pc = "select"
  /\ \E s \in OrderedByCheckInDesc(ActiveSiteRows(Trim(reqs[r].body.powerPlant.str))) :
       LET rows == [i \in DOMAIN s |-> ActiveSiteColumns(s[i])]
       IN reqs' = [reqs EXCEPT ![r] =
            [@ EXCEPT !.pc = "done", !.rows = rows,
                      !.resp = [NoResp EXCEPT !.status = 200, !.count = Len(rows),
                                              !.visits = rows]]]
  /\ UNCHANGED <<formVars, visits, now, mail, hits, clock>>

----------------------------------------------------------------------------
(* GET /api/visits/:id and GET /api/visits/active *)

\* the GET routes under /api/visits/ in the order app.get registers them;
\* a pattern is the last segment of the route path
GetRoutes ==
  << [handler |-> "activeSite", pattern |-> PathActiveSite],
     [handler |-> "visit", pattern |-> <<":", "i", "d">>],
     [handler |-> "active", pattern |-> PathActive] >>

\* a route path matches a request path: a parameter takes any segment
Matches(pattern, path) ==
  IF pattern[1] = ":" THEN path # <<>> ELSE pattern = path

\* the handler of the first registered route that matches, which answers
\* without calling next()
Route(path) ==
  LET i == CHOOSE i \in DOMAIN GetRoutes :
             /\ Matches(GetRoutes[i].pattern, path)
             /\ \A j \in 1..(i - 1) : ~Matches(GetRoutes[j].pattern, path)
  IN GetRoutes[i].handler

\* SELECT ... FROM visits WHERE id = $1
VisitRows(uuid) == {v \in visits : v.id = uuid}

\* the columns the SELECT of /api/visits/:id lists
VisitColumns(v) ==
  [id |-> v.id, turbine_id |-> v.turbine_id, technicians |-> v.technicians,
   check_in |-> v.check_in, check_out |-> v.check_out]

\* SELECT ... WHERE turbine_id = $1 AND check_out IS NULL
ActiveRows(turbineId) ==
  {v \in visits : v.turbine_id = turbineId /\ v.check_out = NullTs}

\* ORDER BY check_in DESC LIMIT 1: a row with no later row
Latest(rows) == {v \in rows : \A w \in rows : w.check_in <= v.check_in}

\* res.json({ visit }): <<>> stands for null
VisitResp(rows) == [NoResp EXCEPT !.status = 200, !.visit = rows]

\* the limiter and the synchronous start of the handler the path is routed to
GetReceive(r, b, limit) ==
  /\ Arrives(r, limit)
  /\ LET q == Limited([reqs[r] EXCEPT !.kind = Route(b.path), !.body = b,
                                      !.uuid = PgUuidIn(b.path)])
     IN reqs' = [reqs EXCEPT ![r] =
          IF ~Admitted(b)
          THEN q
          ELSE IF Route(b.path) = "visit"
          THEN [q EXCEPT !.pc = "select"]
          ELSE IF ~Truthy(b.turbineId) \/ b.turbineId.type # "string"
                  \/ Trim(b.turbineId.str) = <<>>
          THEN [q EXCEPT !.pc = "done", !.resp = ErrorResp(400, "turbineId is required")]
          ELSE [q EXCEPT !.pc = "select"]]
  /\ hits' = Increment(KeyGenerator(b))
  /\ UNCHANGED <<formVars, visits, now, mail, clock>>

\* the query of the handler and its answer
GetSelect(r) ==
  /\ reqs[r].kind \in {"visit", "active"} /\ reqs[r].pc = "select"
  /\ IF reqs[r].kind = "visit"
     THEN reqs' = [reqs EXCEPT ![r] =
            IF reqs[r].uuid = InvalidUuid
            THEN [@ EXCEPT !.pc = "done", !.resp = ErrorResp(500, "Internal server error")]
            ELSE IF VisitRows(reqs[r].uuid) = {}
            THEN [@ EXCEPT !.pc = "done", !.resp = ErrorResp(404, "Not found")]
            ELSE LET v == CHOOSE v \in VisitRows(reqs[r].uuid) : TRUE
                 IN [@ EXCEPT !.pc = "done", !.rows = <<VisitColumns(v)>>,
                              !.resp = VisitResp(<<VisitColumns(v)>>)]]
     ELSE LET rows == Latest(ActiveRows(Trim(reqs[r].body.turbineId.str)))
          IN IF rows = {}
             THEN reqs' = [reqs EXCEPT ![r] =
                    [@ EXCEPT !.pc = "done", !.resp = VisitResp(<<>>)]]
             ELSE \E v \in rows :
                    reqs' = [reqs EXCEPT ![r] =
                      [@ EXCEPT !.pc = "done", !.rows = <<ActiveSiteColumns(v)>>,
                                !.resp = VisitResp(<<ActiveSiteColumns(v)>>)]]
  /\ UNCHANGED <<formVars, visits, now, mail, hits, clock>>

----------------------------------------------------------------------------
(* The clock of the store: now() *)

\* the next instant of the store's clock is more than windowMs away:
\* every window of the limiter has ended by then
Tick ==
  /\ now < MaxTime
  /\ now' = now + 1
  /\ clock' = 0
  /\ hits' = {}
  /\ UNCHANGED <<formVars, visits, reqs, mail>>

\* time passing between two instants of the store's clock
ClockTick ==
  /\ clock < MaxClock
  /\ clock' = clock + 1
  /\ hits' = LiveAt(hits, clock + 1)
  /\ UNCHANGED <<formVars, visits, now, reqs, mail>>

----------------------------------------------------------------------------
(* Request inputs *)

SiteA == <<"A">>
PaddedSiteA == <<" ", "A">>

OneTech == JsArr(<<JsStr(<<"a">>)>>)

CheckinBody(tech, site, st, turbine) ==
  [NoBody EXCEPT !.path = PathCheckin, !.technicians = tech, !.powerPlant = site,
                 !.status = st, !.turbineId = turbine]
CheckoutBody(id) == [NoBody EXCEPT !.path = PathCheckout, !.visitId = id]
ActiveSiteQuery(site) == [NoBody EXCEPT !.path = PathActiveSite, !.powerPlant = site]
\* GET /api/visits/<path>?turbineId=<turbineId>
GetQuery(path, turbineId) == [NoBody EXCEPT !.path = path, !.turbineId = turbineId]

TurbineT == <<"T">>
\* the identifier check-in gives a visit at site A without turbineId
TurbineSiteA == <<"S","I","T","E","-","A">>

\* technicians: arrays and comma-separated strings with padded, blank and
\* repeated names, and values that are neither
TechInputs ==
  { OneTech,
    JsArr(<<JsStr(<<"a">>), JsStr(<<"a">>), JsStr(<<" ", "b", " ">>)>>),
    JsArr(<<JsStr(<<"b", " ">>), JsStr(<<>>), JsStr(<<"a">>), JsStr(<<" ", "b">>)>>),
    JsArr(<<JsNull, JsNum(<<"7">>), JsStr(<<"7">>)>>),
    JsArr(<<JsStr(<<" ">>), JsStr(<<>>)>>),
    JsArr(<<>>),
    JsStr(<<"a", ",", " ", "b", ",", ",", "a", " ">>),
    JsStr(<<"a", " ", "b", ",", "a", " ", "b">>),
    JsStr(<<" ", ",", " ">>),
    JsStr(<<>>),
    Undefined, JsNull, JsObject, JsNum(<<"7">>) }

StatusInputs ==
  {Undefined, JsStr(<<"I","N">>), JsStr(<<"i","n">>), JsStr(<<"O","U","T">>)}

SiteInputs == {Undefined, JsStr(SiteA), JsStr(PaddedSiteA)}

\* visitId: identifiers randomUUID can return, one of them in upper case and
\* one in braces, a string that is no uuid, the empty string and no string
VisitIdInputs ==
  {JsStr(Uuid(n)) : n \in 0..2} \cup
  { JsStr(Upper(Uuid(1))), JsStr(<<"{">> \o Uuid(0) \o <<"}">>),
    JsStr(<<"a", "b", "c">>), JsStr(<<>>), Undefined, JsNum(<<"7">>) }

---------------------------------------------------------------------------------------------------------------------------------------------------
(* Specifications *)

\* the steps of the requests, with bodies drawn from the given sets and at
\* most `limit` requests in flight
NextOver(checkins, checkouts, siteQueries, limit) ==
  \/ \E r \in Reqs : \E b \in checkins : CheckinReceive(r, b, limit)
  \/ \E r \in Reqs : CheckinInsert(r)
  \/ \E r \in Reqs : CheckinCount(r)
  \/ \E r \in Reqs : CheckinMail(r)
  \/ \E r \in Reqs : \E b \in checkouts : CheckoutReceive(r, b, limit)
  \/ \E r \in Reqs : CheckoutUpdate(r)
  \/ \E r \in Reqs : CheckoutContext(r)
  \/ \E r \in Reqs : CheckoutMail(r)
  \/ \E r \in Reqs : \E b \in siteQueries : ActiveSiteReceive(r, b, limit)
  \/ \E r \in Reqs : ActiveSiteSelect(r)
  \/ Tick

\* the site query every specification sends
QueriesSiteA == {ActiveSiteQuery(JsStr(SiteA))}

\* plain inputs: check-in with and without site, check-out of two ids
CheckinsPlain ==
  {CheckinBody(OneTech, s, Undefined, Undefined) : s \in {Undefined, JsStr(SiteA)}}
CheckoutsPlain == {CheckoutBody(JsStr(Uuid(n))) : n \in 0..1}

\* concurrent requests, plain inputs
Next == NextOver(CheckinsPlain, CheckoutsPlain, QueriesSiteA, MaxReqs)
Spec == Init /\ [][Next]_vars

\* every query the handlers await is answered by the store, so a request
\* waiting on one takes its next step; sendNotification waits on the mail
\* server, which may never answer
StoreAnswers ==
  \A r \in 1..MaxReqs :
    /\ WF_vars(CheckinInsert(r))
    /\ WF_vars(CheckinCount(r))
    /\ WF_vars(CheckoutUpdate(r))
    /\ WF_vars(CheckoutContext(r))
    /\ WF_vars(ActiveSiteSelect(r))
SpecLive == Init /\ [][Next]_vars /\ StoreAnswers

\* check-in with every technicians input
CheckinsIn ==
  {CheckinBody(t, Undefined, Undefined, Undefined) : t \in TechInputs}
    \cup {CheckinBody(OneTech, JsStr(SiteA), Undefined, Undefined)}
CheckoutsOne == {CheckoutBody(JsStr(Uuid(1)))}

\* one request at a time; check-in with every technicians input
NextIn == NextOver(CheckinsIn, CheckoutsOne, QueriesSiteA, 1)
SpecIn == Init /\ [][NextIn]_vars

\* check-out with every visitId input
CheckinsOut == {CheckinBody(OneTech, JsStr(SiteA), Undefined, Undefined)}
CheckoutsOut == {CheckoutBody(v) : v \in VisitIdInputs}

\* one request at a time; check-out with every visitId input
NextOut == NextOver(CheckinsOut, CheckoutsOut, QueriesSiteA, 1)
SpecOut == Init /\ [][NextOut]_vars

\* check-in with and without site, with status IN and OUT
CheckinsCo ==
  {CheckinBody(OneTech, JsStr(SiteA), st, Undefined) :
     st \in {JsStr(<<"I","N">>), JsStr(<<"O","U","T">>)}}
    \cup {CheckinBody(OneTech, Undefined, Undefined, Undefined)}

\* two requests at a time; check-in with and without site, with status IN
\* and OUT
NextCo == NextOver(CheckinsCo, CheckoutsOne, QueriesSiteA, 2)
SpecCo == Init /\ [][NextCo]_vars

\* check-in with every site and status, the site query of every site
CheckinsSite ==
  {CheckinBody(OneTech, s, JsStr(<<"I","N">>), Undefined) : s \in SiteInputs}
    \cup {CheckinBody(OneTech, JsStr(SiteA), st, Undefined) : st \in StatusInputs}
QueriesSite == {ActiveSiteQuery(s) : s \in SiteInputs}

\* one request at a time; check-in with every site and status, the site query
NextSite == NextOver(CheckinsSite, CheckoutsPlain, QueriesSite, 1)
SpecSite == Init /\ [][NextSite]_vars

\* one request at a time, time passing between the requests; check-in of a
\* turbine with and without status; the reads by site, by id and by turbine
NextGet ==
  \/ \E r \in Reqs :
       \E b \in {CheckinBody(OneTech, JsStr(SiteA), st, JsStr(TurbineT)) :
                   st \in {Undefined, JsStr(<<"O","U","T">>)}} :
         CheckinReceive(r, b, 1)
  \/ \E r \in Reqs : CheckinInsert(r)
  \/ \E r \in Reqs : CheckinCount(r)
  \/ \E r \in Reqs : CheckinMail(r)
  \/ \E r \in Reqs : \E b \in {CheckoutBody(JsStr(Uuid(n))) : n \in 0..1} :
       CheckoutReceive(r, b, 1)
  \/ \E r \in Reqs : CheckoutUpdate(r)
  \/ \E r \in Reqs : CheckoutContext(r)
  \/ \E r \in Reqs : CheckoutMail(r)
  \/ \E r \in Reqs : ActiveSiteReceive(r, ActiveSiteQuery(JsStr(SiteA)), 1)
  \/ \E r \in Reqs : ActiveSiteSelect(r)
  \/ \E r \in Reqs :
       \E b \in {GetQuery(PathActive, t) :
                   t \in {Undefined, JsStr(TurbineT), JsStr(TurbineSiteA)}}
              \cup {GetQuery(Uuid(0), Undefined)} :
         GetReceive(r, b, 1)
  \/ \E r \in Reqs : GetSelect(r)
  \/ InFlight = {} /\ Tick
SpecGet == Init /\ [][NextGet]_vars

\* one request at a time, more requests than the limiter admits in a
\* window: one address reads two visits by id, with time passing between
\* the requests
NextRate ==
  \/ \E r \in Reqs : \E b \in {GetQuery(Uuid(n), Undefined) : n \in 0..1} :
       GetReceive(r, b, 1)
  \/ \E r \in Reqs : GetSelect(r)
  \/ InFlight = {} /\ ClockTick
SpecRate == InitRate /\ [][NextRate]_vars

\* one request at a time, more requests than the limiter admits in a
\* window: two addresses read visits by id and check out
NextKeys ==
  \/ \E r \in Reqs :
       \E b \in {GetQuery(Uuid(0), Undefined),
                  [GetQuery(Uuid(0), Undefined) EXCEPT !.ip = 2]} :
         GetReceive(r, b, 1)
  \/ \E r \in Reqs : GetSelect(r)
  \/ \E r \in Reqs : CheckoutReceive(r, CheckoutBody(JsStr(Uuid(0))), 1)
  \/ \E r \in Reqs : CheckoutUpdate(r)
  \/ \E r \in Reqs : CheckoutContext(r)
  \/ \E r \in Reqs : CheckoutMail(r)
SpecKeys == InitRate /\ [][NextKeys]_vars

\* one request at a time, more requests than the limiter admits in a
\* window: check-ins at a site with recipients, check-outs of the visit
\* the table holds and check-outs without visitId
NextMail ==
  \/ \E r \in Reqs : CheckinReceive(r, CheckinBody(OneTech, JsStr(SiteA), Undefined, Undefined), 1)
  \/ \E r \in Reqs : CheckinInsert(r)
  \/ \E r \in Reqs : CheckinCount(r)
  \/ \E r \in Reqs : CheckinMail(r)
  \/ \E r \in Reqs : \E b \in {CheckoutBody(JsStr(Uuid(0))), CheckoutBody(Undefined)} :
       CheckoutReceive(r, b, 1)
  \/ \E r \in Reqs : CheckoutUpdate(r)
  \/ \E r \in Reqs : CheckoutContext(r)
  \/ \E r \in Reqs : CheckoutMail(r)
SpecMail == InitRate /\ [][NextMail]_vars

\* requests with and without their required parameter: visitId missing,
\* empty and no string; powerPlant and turbineId missing and blank
CheckoutsBad ==
  {CheckoutBody(v) : v \in {Undefined, JsStr(<<>>), JsNum(<<"7">>), JsStr(Uuid(0))}}
QueriesBad == {ActiveSiteQuery(s) : s \in {Undefined, JsStr(<<" ">>), JsStr(SiteA)}}
GetsBad ==
  {GetQuery(PathActive, t) : t \in {Undefined, JsStr(<<" ">>), JsStr(TurbineSiteA)}}

\* one request at a time, with and without the required parameter
NextBad ==
  \/ \E r \in Reqs : \E b \in CheckoutsBad : CheckoutReceive(r, b, 1)
  \/ \E r \in Reqs : CheckoutUpdate(r)
  \/ \E r \in Reqs : CheckoutContext(r)
  \/ \E r \in Reqs : CheckoutMail(r)
  \/ \E r \in Reqs : \E b \in QueriesBad : ActiveSiteReceive(r, b, 1)
  \/ \E r \in Reqs : ActiveSiteSelect(r)
  \/ \E r \in Reqs : \E b \in GetsBad : GetReceive(r, b, 1)
  \/ \E r \in Reqs : GetSelect(r)
  \/ InFlight = {} /\ Tick
SpecBad == Init /\ [][NextBad]_vars

\* check-in with and without site and without technicians
CheckinsFail ==
  CheckinsPlain \cup {CheckinBody(JsArr(<<>>), JsStr(SiteA), Undefined, Undefined)}

\* concurrent check-ins over a store whose queries may be rejected
NextFail ==
  \/ \E r \in Reqs : \E b \in CheckinsFail : CheckinReceive(r, b, MaxReqs)
  \/ \E r \in Reqs : CheckinInsert(r)
  \/ \E r \in Reqs : CheckinInsertFails(r)
  \/ \E r \in Reqs : CheckinCount(r)
  \/ \E r \in Reqs : CheckinCountFails(r)
  \/ \E r \in Reqs : CheckinMail(r)
  \/ InFlight = {} /\ Tick
SpecFail == Init /\ [][NextFail]_vars

\* the form's submit limiter: the user types a name and submits, the
\* countdown ticks, time passes
NextForm ==
  \/ \E n \in {<<>>, <<"a">>} : TypeName(1, n)
  \/ OnCheckIn
  \/ TimerTick
  \/ DateTick
SpecForm == Init /\ [][NextForm]_vars

\* time passes, and a running interval timer fires
SpecFormLive == Init /\ [][NextForm]_vars /\ WF_vars(DateTick) /\ WF_vars(TimerTick)

\* the form's technicians list: rows added, removed, typed into, cleared
\* and restored from localStorage
NextRows ==
  \/ AddTechnician
  \/ \E i \in -1..MaxRows : RemoveTechnician(i)
  \/ ClearAll
  \/ \E i \in 1..MaxRows : \E n \in TypedNames : TypeName(i, n)
  \/ \E d \in Stored : RestorePersisted(d)
  \/ \E d \in Stored : RestoreLastIn(d)
  \/ \E dIn, dSub \in Stored : RestoreLastSubmission(dIn, dSub)
SpecRows == Init /\ [][NextRows]_vars

----------------------------------------------------------------------------
(* Check-out: claims C1 to C4 *)

IsCheckout(r) == reqs[r].kind = "checkout"

\* the uuid a check-out request names (InvalidUuid when it names none)
Target(r) == reqs[r].uuid

NotFoundResp == ErrorResp(404, "Active visit not found or already checked out")

\* C1: a row whose check_out is set is never changed again, and the UPDATE of
\* a check-out request that names such a row leaves the whole store unchanged.
C1_CheckOutImmutable ==
  [][ /\ \A v \in visits : v.check_out # NullTs => v \in visits'
      /\ \A r \in Reqs :
           ( /\ IsCheckout(r) /\ reqs[r].pc = "update" /\ reqs'[r].pc # "update"
             /\ \E v \in visits : v.id = Target(r) /\ v.check_out # NullTs )
           => visits' = visits ]_vars

\* a second check-out of a visit was answered at a later instant than the
\* one the visit was closed at
C1_Witness ==
  \E r, o \in Reqs : \E v \in visits :
    /\ IsCheckout(r) /\ reqs[r].pc = "done" /\ reqs[r].resp.status = 404
    /\ IsCheckout(o) /\ reqs[o].resp.status = 200 /\ reqs[o].resp.visitId = v.id
    /\ v.id = Target(r) /\ v.check_out # NullTs /\ v.check_out # Ts(now)

\* the check-out requests for visit v
CheckoutsOf(v) == {r \in Reqs : IsCheckout(r) /\ Target(r) = v.id}

\* C2: when two or more check-out requests for one visit all arrived while it
\* was active, and all are answered, exactly one got 200 with the stored
\* check_out and every other one got the 404.
C2_ExactlyOneCheckoutWins ==
  \A v \in visits :
    LET S == CheckoutsOf(v)
        won == {r \in S : reqs[r].resp.status = 200}
    IN ( /\ Cardinality(S) >= 2
         /\ \A r \in S : reqs[r].sawActive /\ reqs[r].pc = "done" )
       => /\ Cardinality(won) = 1
          /\ \A r \in won : /\ reqs[r].resp.visitId = v.id
                            /\ reqs[r].resp.checkOut = v.check_out
                            /\ v.check_out # NullTs
          /\ \A r \in S \ won : reqs[r].resp = NotFoundResp

C2_Witness ==
  \E v \in visits :
    /\ Cardinality(CheckoutsOf(v)) >= 2
    /\ \A r \in CheckoutsOf(v) : reqs[r].sawActive /\ reqs[r].pc = "done"

\* the check-in request that created visit v; 0 for the row of an earlier run
CreatedBy(v) ==
  IF \E c \in Reqs : reqs[c].kind = "checkin" /\ reqs[c].id = v.id
  THEN CHOOSE c \in Reqs : reqs[c].kind = "checkin" /\ reqs[c].id = v.id
  ELSE 0

\* the answered check-out requests for v that arrived after v was created
\* (requests are handled one at a time, in slot order)
LaterCheckouts(v) ==
  {r \in CheckoutsOf(v) : r > CreatedBy(v) /\ reqs[r].pc = "done"}

\* C3: of the check-out requests for a visit, handled one after another, the
\* first is answered 200 with the visit's id and a non-null check_out, and
\* every later one 404.
C3_FirstCheckoutWinsLaterNotFound ==
  \A v \in visits : \A r \in LaterCheckouts(v) :
    IF \A o \in LaterCheckouts(v) : r <= o
    THEN /\ reqs[r].resp.status = 200
         /\ reqs[r].resp.visitId = v.id
         /\ reqs[r].resp.checkOut # NullTs
         /\ reqs[r].resp.checkOut = v.check_out
         /\ reqs[r].resp.error = ""
    ELSE reqs[r].resp = NotFoundResp

C3_Witness ==
  \E v \in visits : Cardinality(LaterCheckouts(v)) >= 2

\* a check-out request with a non-empty string that matches no row
UnknownId(r) ==
  /\ IsCheckout(r) /\ reqs[r].pc = "done"
  /\ reqs[r].body.visitId.type = "string" /\ reqs[r].body.visitId.str # <<>>
  /\ \A v \in visits : v.id # Target(r)

\* a check-out request for a visit an earlier request had checked out
AlreadyClosed(r) ==
  /\ IsCheckout(r) /\ reqs[r].pc = "done"
  /\ \E o \in 1..(r - 1) :
       IsCheckout(o) /\ Target(o) = Target(r) /\ reqs[o].resp.status = 200

\* C4: a check-out with any non-empty string that matches no row is answered
\* as a check-out of an already closed visit is: 404 with the same body.
C4_UnknownIdSameAsClosed ==
  \A r \in Reqs : (UnknownId(r) \/ AlreadyClosed(r)) => reqs[r].resp = NotFoundResp

----------------------------------------------------------------------------
(* Check-in: claims C5 to C7 *)

IsCheckin(r) == reqs[r].kind = "checkin"

Blank(s) == \A k \in 1..Len(s) : s[k] \in WhiteSpace

\* technicians that name nobody: missing, neither array nor string, an array
\* of blank strings only (the empty array too), a string of blanks and commas
EmptyTechInput(t) ==
  CASE t.type = "array" ->
         \A i \in 1..Len(t.arr) : t.arr[i].type = "string" /\ Blank(t.arr[i].str)
    [] t.type = "string" -> \A k \in 1..Len(t.str) : t.str[k] \in WhiteSpace \cup {","}
    [] OTHER -> TRUE

\* C5: a check-in with a technician is answered 201 with its row, which is in
\* the store; its INSERT adds exactly one row, with an id no row had, with
\* check_out NULL and check_in the instant of the INSERT.
C5_CheckinAddsOneActiveRow ==
  /\ [](\A r \in Reqs :
          (IsCheckin(r) /\ reqs[r].pc = "done" /\ ~EmptyTechInput(reqs[r].body.technicians))
          => /\ reqs[r].resp.status = 201
             /\ Len(reqs[r].resp.visit) = 1
             /\ reqs[r].resp.visit[1].id = reqs[r].id
             /\ reqs[r].resp.visit[1].check_out = NullTs
             /\ \E v \in visits : [v EXCEPT !.check_out = NullTs] = reqs[r].resp.visit[1])
  /\ [][\A r \in Reqs :
          (IsCheckin(r) /\ reqs[r].pc = "insert" /\ reqs'[r].pc # "insert")
          => \E row \in visits' :
               /\ visits' = visits \cup {row}
               /\ \A v \in visits : v.id # row.id
               /\ row.id = reqs[r].id
               /\ row.check_out = NullTs
               /\ row.check_in = now]_vars

\* two check-ins were answered 201, the second at a later instant
C5_Witness ==
  \E r, o \in Reqs : \E v, w \in visits :
    /\ r # o /\ IsCheckin(r) /\ IsCheckin(o)
    /\ reqs[r].resp.status = 201 /\ reqs[o].resp.status = 201
    /\ v.id = reqs[r].id /\ w.id = reqs[o].id /\ v.check_in < w.check_in

\* the rows the check-in requests have inserted
InsertedBy(r) == {v \in visits : IsCheckin(r) /\ v.id = reqs[r].id}

\* C6: a check-in whose technicians name nobody is answered 400 and inserts
\* nothing; every row of the store has a technician.
C6_NoTechnicianRejected ==
  /\ \A r \in Reqs :
       (IsCheckin(r) /\ EmptyTechInput(reqs[r].body.technicians))
       => /\ reqs[r].pc = "done"
          /\ reqs[r].resp = ErrorResp(400, "At least one technician name is required")
          /\ InsertedBy(r) = {}
  /\ \A v \in visits : v = SeedRow \/ \E r \in Reqs : v \in InsertedBy(r)
  /\ \A v \in visits : v.technicians # <<>>

\* a check-in with an array of blank names was rejected while a row is stored
C6_Witness ==
  /\ visits # {}
  /\ \E r \in Reqs :
       /\ IsCheckin(r) /\ reqs[r].resp.status = 400
       /\ reqs[r].body.technicians.type = "array"
       /\ reqs[r].body.technicians.arr # <<>>

RECURSIVE JoinComma(_)
JoinComma(p) ==
  IF Len(p) = 1 THEN p[1]
  ELSE JoinComma(SubSeq(p, 1, Len(p) - 1)) \o <<",">> \o p[Len(p)]

\* e is s without its leading and trailing white space
IsTrimOf(e, s) ==
  /\ e = <<>> \/ (e[1] \notin WhiteSpace /\ e[Len(e)] \notin WhiteSpace)
  /\ \E a \in 0..Len(s) :
       /\ a + Len(e) <= Len(s)
       /\ SubSeq(s, a + 1, a + Len(e)) = e
       /\ Blank(SubSeq(s, 1, a))
       /\ Blank(SubSeq(s, a + Len(e) + 1, Len(s)))

\* the entries of a technicians input: the elements of the array as strings,
\* or the pieces of the string between its commas
Entries(t) ==
  IF t.type = "array" THEN [i \in 1..Len(t.arr) |-> JsString(t.arr[i])]
  ELSE Split(t.str, ",")

FirstEntry(e, p) == CHOOSE k \in 1..Len(p) :
                      IsTrimOf(e, p[k]) /\ \A j \in 1..(k - 1) : ~IsTrimOf(e, p[j])

\* C7: the technicians a check-in stores are the entries of its input (the
\* array, or the string cut at its commas), each trimmed, the empty ones
\* left out, each kept once at the place of its first occurrence.
C7_TechniciansNormalized ==
  \A r \in Reqs : \A v \in InsertedBy(r) :
    LET t == reqs[r].body.technicians
        p == Entries(t)
        st == v.technicians
    IN /\ t.type \in {"array", "string"}
       /\ t.type = "string" =>
            /\ JoinComma(p) = t.str
            /\ \A i \in 1..Len(p) : \A k \in 1..Len(p[i]) : p[i][k] # ","
       /\ \A i \in 1..Len(st) : st[i] # <<>> /\ \E k \in 1..Len(p) : IsTrimOf(st[i], p[k])
       /\ \A k \in 1..Len(p) : ~Blank(p[k]) => \E i \in 1..Len(st) : IsTrimOf(st[i], p[k])
       /\ \A i, j \in 1..Len(st) : i # j => st[i] # st[j]
       /\ \A i, j \in 1..Len(st) : i < j => FirstEntry(st[i], p) < FirstEntry(st[j], p)
       /\ reqs[r].rows[1].technicians = st

\* stored: a string input with a padded, an empty and a repeated entry, and
\* an array input whose first name comes again, padded, after another name
C7_Witness ==
  /\ \E r \in Reqs : \E v \in InsertedBy(r) :
       /\ reqs[r].body.technicians.type = "string"
       /\ Len(v.technicians) >= 2
       /\ Len(Entries(reqs[r].body.technicians)) >= Len(v.technicians) + 2
  /\ \E r \in Reqs : \E v \in InsertedBy(r) :
       /\ reqs[r].body.technicians.type = "array"
       /\ Len(v.technicians) >= 2
       /\ Len(Entries(reqs[r].body.technicians)) >= Len(v.technicians) + 2

----------------------------------------------------------------------------
(* Co-activity: claims C8 to C10 *)

IsSiteQuery(r) == reqs[r].kind = "activeSite"

\* the status of a row is IN in any case of the letters; a row stored
\* without status counts as IN
StatusIsIn(v) ==
  \/ v.status = NULL
  \/ /\ Len(v.status) = 2
     /\ v.status[1] \in {"I", "i"}
     /\ v.status[2] \in {"N", "n"}

\* v is active, IN and checked in on the current UTC day at site p
CountsAt(v, p) ==
  /\ v.power_plant = p
  /\ v.check_out = NullTs
  /\ StatusIsIn(v)
  /\ v.check_in \div TicksPerDay = now \div TicksPerDay

\* C8: the coActivity of a check-in with a powerPlant is true exactly when,
\* as its count query runs, another row of the same power_plant is active,
\* IN and checked in on the current UTC day; without powerPlant it is false.
C8_CoActivityIffOtherCounts ==
  /\ [](\A r \in Reqs :
          (IsCheckin(r) /\ reqs[r].pc = "done" /\ reqs[r].resp.status = 201)
          => /\ reqs[r].resp.coActivity = reqs[r].co
             /\ ~Truthy(reqs[r].body.powerPlant) => ~reqs[r].resp.coActivity)
  /\ [][\A r \in Reqs :
          (IsCheckin(r) /\ reqs[r].pc = "count" /\ reqs'[r].pc # "count")
          => reqs'[r].co =
               (\E v \in visits :
                  v.id # reqs[r].id /\ CountsAt(v, reqs[r].rows[1].power_plant))]_vars

\* answered: a check-in with coActivity, and one without it although the
\* site has another row
C8_Witness ==
  /\ \E r \in Reqs : IsCheckin(r) /\ reqs[r].pc = "done" /\ reqs[r].resp.coActivity
  /\ \E r \in Reqs : \E v \in visits :
       /\ IsCheckin(r) /\ reqs[r].pc = "done" /\ reqs[r].resp.status = 201
       /\ ~reqs[r].resp.coActivity
       /\ v.id # reqs[r].id /\ v.power_plant = reqs[r].rows[1].power_plant

\* the check-in requests for site p that arrived before request q
CheckinsBefore(q, p) ==
  {r \in 1..(q - 1) : IsCheckin(r) /\ reqs[r].body.powerPlant = JsStr(p)}

\* C9: a site query for p that follows n check-ins for p, handled one after
\* another with status "IN" on the current UTC day and no check-out since,
\* returns count n; the first of the check-ins was answered coActivity
\* false and every later one coActivity true.
C9_CountAfterCheckins ==
  \A q \in Reqs :
    ( /\ IsSiteQuery(q) /\ reqs[q].pc = "done"
      /\ reqs[q].body.powerPlant.type = "string" )
    => LET K == CheckinsBefore(q, reqs[q].body.powerPlant.str)
       IN ( /\ K # {}
            /\ \A v \in visits :
                 v.power_plant = reqs[q].body.powerPlant.str
                 => \E r \in K : v.id = reqs[r].id
            /\ \A r \in K : /\ reqs[r].body.status = JsStr(<<"I","N">>)
                            /\ reqs[r].resp.status = 201
                            /\ reqs[r].resp.visit[1].check_in \div TicksPerDay
                                 = now \div TicksPerDay
            /\ \A v \in visits : v.check_out = NullTs )
          => /\ reqs[q].resp.status = 200
             /\ reqs[q].resp.count = Cardinality(K)
             /\ \A r \in K :
                  reqs[r].resp.coActivity = (\E o \in K : o < r)

\* C10: the site query returns exactly the rows of the requested powerPlant
\* that are active, IN and checked in on the current UTC day, and count is
\* the length of the list; a row that is checked out is not in the list.
C10_SiteQueryReturnsMatching ==
  [][\A q \in Reqs :
       (IsSiteQuery(q) /\ reqs[q].pc = "select" /\ reqs'[q].pc = "done")
       => LET got == reqs'[q].resp.visits
          IN /\ reqs'[q].resp.status = 200
             /\ reqs'[q].resp.count = Len(got)
             /\ \A i, j \in 1..Len(got) : i # j => got[i].id # got[j].id
             /\ {got[i].id : i \in 1..Len(got)}
                  = {v.id : v \in {w \in visits :
                                     CountsAt(w, reqs[q].body.powerPlant.str)}}
             /\ \A i \in 1..Len(got) : got[i].check_out = NullTs]_vars

----------------------------------------------------------------------------
(* The same-day filter: claim C11 *)

\* an active visit checked in on an earlier UTC day than the current one
Stale(v) == v.check_out = NullTs /\ UtcDate(v.check_in) < UtcDate(now)

\* C11: an active visit checked in on an earlier UTC day is in no answer of
\* the site query and does not make a check-in's coActivity true, and a
\* check-out of its id still succeeds and closes it.
C11_StaleVisitNotCounted ==
  [][\A r \in Reqs :
       /\ (IsSiteQuery(r) /\ reqs[r].pc = "select" /\ reqs'[r].pc = "done")
            => \A v \in visits : Stale(v) =>
                 \A i \in DOMAIN reqs'[r].resp.visits : reqs'[r].resp.visits[i].id # v.id
       /\ (IsCheckin(r) /\ reqs[r].pc = "count" /\ reqs'[r].pc # "count"
              /\ \A v \in visits :
                    (v.id # reqs[r].id /\ v.power_plant = JsString(reqs[r].body.powerPlant))
                      => Stale(v))
            => ~reqs'[r].co
       /\ (IsCheckout(r) /\ reqs[r].pc = "update" /\ reqs'[r].pc # "update"
              /\ \E v \in visits : v.id = Target(r) /\ Stale(v))
            => /\ reqs'[r].pc = "context"
               /\ \E w \in visits' : w.id = Target(r) /\ w.check_out = Ts(now)
  ]_vars

\* the row left by an earlier day is still active; a check-in at its site
\* was answered coActivity false and a later site query counted one visit
C11_Witness ==
  /\ SeedRow \in visits
  /\ \E r, q \in Reqs :
       /\ IsCheckin(r) /\ reqs[r].resp.status = 201 /\ ~reqs[r].resp.coActivity
       /\ reqs[r].body.powerPlant = JsStr(SiteA)
       /\ IsSiteQuery(q) /\ reqs[q].resp.status = 200 /\ reqs[q].resp.count = 1
       /\ reqs[q].body.powerPlant = JsStr(SiteA)
       /\ reqs[q].resp.visits[1].id = reqs[r].id

----------------------------------------------------------------------------
(* The read by turbine: claim C12 *)

\* a request GET /api/visits/active?turbineId=T with non-empty T that the
\* limiter let through
IsActiveQuery(r) ==
  /\ reqs[r].kind \in {"visit", "active"}
  /\ reqs[r].body.path = PathActive
  /\ reqs[r].body.turbineId.type = "string"
  /\ Trim(reqs[r].body.turbineId.str) # <<>>

\* C12: GET /api/visits/active?turbineId=T with non-empty T is answered 200
\* with the active visit of turbine T that has the greatest checkIn, or with
\* visit null when the turbine has no active visit.
C12_ActiveForTurbine ==
  [][\A r \in Reqs :
       (IsActiveQuery(r) /\ reqs[r].pc = "select" /\ reqs'[r].pc = "done")
         => LET rows == ActiveRows(Trim(reqs[r].body.turbineId.str))
            IN /\ reqs'[r].resp.status = 200
               /\ IF rows = {}
                  THEN reqs'[r].resp.visit = <<>>
                  ELSE \E v \in Latest(rows) :
                         reqs'[r].resp.visit = <<ActiveSiteColumns(v)>>
  ]_vars

----------------------------------------------------------------------------
(* Activity is decided by check_out alone: claim C19 *)

\* C19: whatever status the client sent, the row a check-in inserts has
\* checkOut null; the read by turbine answers with a visit whenever the
\* turbine has an active row, of any status, and with the latest of them;
\* and a check-out of the id of an active row, of any status, closes it.
C19_ActiveByCheckOutAlone ==
  [][\A r \in Reqs :
       /\ (IsCheckin(r) /\ reqs[r].pc = "insert" /\ reqs'[r].pc # "insert"
              /\ reqs'[r].resp.status # 500)
            => \E v \in visits' \ visits :
                 /\ v.id = reqs[r].id /\ v.check_out = NullTs
                 /\ v.status = PgText(reqs[r].body.status)
       /\ (IsActiveQuery(r) /\ reqs[r].pc = "select" /\ reqs'[r].pc = "done"
              /\ ActiveRows(Trim(reqs[r].body.turbineId.str)) # {})
            => \E v \in Latest(ActiveRows(Trim(reqs[r].body.turbineId.str))) :
                 /\ reqs'[r].resp.status = 200
                 /\ reqs'[r].resp.visit = <<ActiveSiteColumns(v)>>
       /\ (IsCheckout(r) /\ reqs[r].pc = "update" /\ reqs'[r].pc # "update"
              /\ \E v \in visits : v.id = Target(r) /\ v.check_out = NullTs)
            => /\ reqs'[r].pc = "context"
               /\ \E w \in visits' : w.id = Target(r) /\ w.check_out = Ts(now)
  ]_vars

----------------------------------------------------------------------------
(* The rate limiter: claims C13 to C15 *)

\* the request was received
Received(r) == reqs[r].pc # "idle"

\* the request was received and reached its route handler
Reached(r) == Received(r) /\ reqs[r].resp # TooMany

\* the instants of an interval of windowMs that starts at t
Window(t) == t..(t + TicksPerWindow - 1)

\* C13: of the requests one client address sends to one route, at most 5
\* that arrive within one interval of 60 seconds reach the route handler,
\* and a request is answered 429 only when 5 requests of its address and
\* route reached the handler in the 60 seconds before it.
C13_AtMostMaxPerWindow ==
  /\ \A t \in 0..MaxClock : \A a \in 1..2 : \A k \in {"visit", "checkout", "checkin"} :
       Cardinality({r \in Reqs : /\ Reached(r)
                                 /\ reqs[r].body.ip = a /\ reqs[r].kind = k
                                 /\ reqs[r].at \in Window(t)}) <= RateMax
  /\ \A r \in Reqs :
       (Received(r) /\ reqs[r].resp = TooMany)
         => Cardinality({q \in 1..(r - 1) :
                           /\ Reached(q)
                           /\ reqs[q].body.ip = reqs[r].body.ip
                           /\ reqs[q].kind = reqs[r].kind
                           /\ reqs[q].at + TicksPerWindow > reqs[r].at}) >= RateMax

\* requests with the same client address and the same path
SameKey(q, r) ==
  reqs[q].body.ip = reqs[r].body.ip /\ reqs[q].body.path = reqs[r].body.path

\* C14: when a request of a key was answered 429 and 60 seconds have passed
\* since then in which no request of the key reached the handler, the next
\* request of the key reaches the handler.
C14_RejectionNotPermanent ==
  \A r \in Reqs :
    ( /\ Received(r)
      /\ \E p \in 1..(r - 1) :
           /\ SameKey(p, r) /\ reqs[p].resp = TooMany
           /\ reqs[p].at + TicksPerWindow <= reqs[r].at
      /\ \A q \in 1..(r - 1) :
           (SameKey(q, r) /\ Reached(q)) => reqs[q].at + TicksPerWindow <= reqs[r].at )
    => Reached(r)

C14_Witness ==
  \E r \in Reqs : \E p \in 1..(r - 1) :
    /\ Received(r) /\ Reached(r)
    /\ SameKey(p, r) /\ reqs[p].resp = TooMany
    /\ reqs[p].at + TicksPerWindow <= reqs[r].at
    /\ \A q \in 1..(r - 1) :
         (SameKey(q, r) /\ Reached(q)) => reqs[q].at + TicksPerWindow <= reqs[r].at

\* the requests a client can send next
Probes ==
  {[GetQuery(Uuid(n), Undefined) EXCEPT !.ip = a] : n \in 0..1, a \in 1..2}
    \cup {[CheckoutBody(JsStr(Uuid(0))) EXCEPT !.ip = a] : a \in 1..2}

----------------------------------------------------------------------------
(* Notifications: claims C16 to C18 *)

Done(r) == reqs[r].pc = "done"

\* sendNotification of the request was called and rejected
MailFailed(r) == \E m \in mail : m.req = r /\ m.outcome = "failed"

\* the check-out updated its row and answered without calling
\* sendNotification although the site of the row has recipients: the
\* SELECT of the context failed
ContextFailed(r) ==
  /\ IsCheckout(r) /\ Done(r) /\ reqs[r].rows # <<>>
  /\ \A m \in mail : m.req # r
  /\ \E v \in visits :
       v.id = Target(r) /\ v.power_plant # NULL /\ HasRecipients(v.power_plant)

\* C16: a check-in whose notification failed is answered 201 with the row
\* it inserted, and the row is in the table; a check-out whose notification
\* or context query failed is answered with the id and the checkOut it set,
\* and the row keeps that checkOut.
C16_NotificationFailureIgnored ==
  \A r \in Reqs :
    (Done(r) /\ (MailFailed(r) \/ ContextFailed(r)))
      => IF IsCheckin(r)
         THEN /\ reqs[r].resp.status = 201
              /\ reqs[r].resp.visit = reqs[r].rows
              /\ \E v \in visits :
                   /\ v.id = reqs[r].id
                   /\ v.check_in = reqs[r].resp.visit[1].check_in
                   /\ v.technicians = reqs[r].resp.visit[1].technicians
         ELSE /\ reqs[r].resp.status = 200
              /\ reqs[r].resp.visitId = Target(r)
              /\ reqs[r].resp.checkOut # NullTs
              /\ \E v \in visits :
                   v.id = Target(r) /\ v.check_out = reqs[r].resp.checkOut

\* a check-in whose notification failed and a check-out whose context
\* query failed, both answered
C16_Witness ==
  \E r, q \in Reqs :
    /\ IsCheckin(r) /\ Done(r) /\ MailFailed(r)
    /\ ContextFailed(q)

\* C17: a check-in whose insert was done, and a check-out whose update was
\* done, is answered in the end, whether or not sendNotification ever
\* settles.
C17_ResponseDoesNotWait ==
  \A r \in 1..MaxReqs :
    (reqs[r].kind \in {"checkin", "checkout"} /\ reqs[r].rows # <<>>)
      ~> (reqs[r].resp.status # 0)

\* sendNotification was called for the request
Notified(r) == reqs[r].pc = "mail" \/ \E m \in mail : m.req = r

\* the request changed the table: the check-in inserted its row, the
\* check-out set check_out of its row
Transitioned(r) ==
  /\ reqs[r].rows # <<>>
  /\ IF IsCheckin(r)
     THEN \E v \in visits : v.id = reqs[r].id /\ v.check_in = reqs[r].rows[1].check_in
     ELSE /\ IsCheckout(r)
          /\ reqs[r].rows[1].check_out # NullTs
          /\ \E v \in visits :
               v.id = Target(r) /\ v.check_out = reqs[r].rows[1].check_out

\* C18: a request for which sendNotification is called has changed the
\* table before, by the insert of its visit ([IN]) or by the update that set
\* checkOut ([OUT]); no notification is attempted for a request answered
\* 400, 404 or 429.
C18_NotifyOnlyAfterTransition ==
  \A r \in Reqs :
    /\ Notified(r) => Transitioned(r)
    /\ \A m \in mail :
         m.req = r => /\ m.subject = (IF IsCheckin(r) THEN "IN" ELSE "OUT")
                      /\ m.id = (IF IsCheckin(r) THEN reqs[r].id ELSE Target(r))
    /\ reqs[r].resp.status \in {400, 404, 429} => ~Notified(r)

\* notifications of both kinds were attempted, and requests answered 400,
\* 404 and 429 are among the others
C18_Witness ==
  /\ \E m \in mail : m.subject = "IN"
  /\ \E m \in mail : m.subject = "OUT"
  /\ \A c \in {400, 404, 429} : \E r \in Reqs : reqs[r].resp.status = c

----------------------------------------------------------------------------
(* What the requests leave alone: claim C20 *)

\* the request takes a step
Steps(r) == reqs'[r] # reqs[r]

\* C20: no step removes a row; a step of a check-out leaves every row as it
\* is, except check_out of the row with the id the request names; a step of
\* a read request (by site, by id, by turbine) leaves the table as it is.
C20_CheckoutChangesOnlyCheckOut ==
  [][/\ \A v \in visits : \E w \in visits' : w.id = v.id
     /\ \A r \in Reqs :
          /\ (Steps(r) /\ reqs'[r].kind = "checkout")
               => /\ Cardinality(visits') = Cardinality(visits)
                  /\ \A v \in visits :
                       IF v.id = reqs'[r].uuid
                       THEN \E w \in visits' : [w EXCEPT !.check_out = v.check_out] = v
                       ELSE v \in visits'
          /\ (Steps(r) /\ reqs'[r].kind \in {"activeSite", "visit", "active"})
               => visits' = visits
  ]_vars

\* the visit the table held was checked out and, but for check_out, is as
\* it was; a read was answered
C20_Witness ==
  /\ \E r \in Reqs : \E v \in visits :
       /\ IsCheckout(r) /\ reqs[r].resp.status = 200
       /\ v.check_out = reqs[r].resp.checkOut
       /\ [v EXCEPT !.check_out = NullTs] = SeedRow
  /\ \E q \in Reqs :
       reqs[q].kind \in {"activeSite", "visit"} /\ reqs[q].resp.status = 200

----------------------------------------------------------------------------
(* Concurrent check-ins: claim C21 *)

\* the check-in requests whose INSERT was done or refused
PastInsert == {r \in Reqs : IsCheckin(r) /\ reqs[r].pc \in {"count", "mail", "done"}
                                        /\ reqs[r].techs # <<>>}

\* C21: check-ins with technicians, in any interleaving of their steps, each
\* create their own row: every one whose insert ran has exactly one row, with
\* an id no other request has, stored as it was inserted; the table holds as
\* many new rows as inserts ran; each is answered 201; and no step of a
\* check-in changes or removes a row, every row it adds being active.
C21_ConcurrentCheckinsCoexist ==
  /\ [](\A r \in PastInsert :
          /\ Cardinality(InsertedBy(r)) = 1
          /\ \A o \in PastInsert \ {r} : reqs[o].id # reqs[r].id
          /\ \A v \in InsertedBy(r) : [v EXCEPT !.check_out = NullTs] = reqs[r].rows[1]
          /\ reqs[r].pc = "done" => reqs[r].resp.status = 201)
  /\ [](Cardinality({v \in visits : v.id # SeedRow.id}) = Cardinality(PastInsert))
  /\ [][\A r \in Reqs :
          (Steps(r) /\ reqs'[r].kind = "checkin")
          => /\ \A v \in visits : v \in visits'
             /\ \A v \in visits' \ visits : v.check_out = NullTs]_vars

\* two check-ins with the same turbine id have both inserted before either
\* went on
C21_Witness ==
  \E r, o \in Reqs :
    /\ r # o /\ IsCheckin(r) /\ IsCheckin(o)
    /\ reqs[r].pc = "count" /\ reqs[o].pc = "count"
    /\ reqs[r].turbine = reqs[o].turbine
    /\ Cardinality(InsertedBy(r) \cup InsertedBy(o)) = 2

----------------------------------------------------------------------------
(* Missing parameters: claim C22 *)

\* a value that is no string, or a string of white space only
NoText(x) == x.type # "string" \/ Trim(x.str) = <<>>

\* the request lacks the parameter its route requires: check-out without a
\* string visitId, the site query without a non-blank powerPlant, the
\* query of the active visit of a turbine without a non-blank turbineId
MissingParam(q) ==
  \/ q.body.path = PathCheckout /\ q.body.visitId.type # "string"
  \/ q.body.path = PathActiveSite /\ NoText(q.body.powerPlant)
  \/ q.body.path = PathActive /\ NoText(q.body.turbineId)

\* C22: a request that lacks its required parameter is answered 400 as it
\* is received, and no step of it changes the table.
C22_MissingParamRejected ==
  /\ [](\A r \in Reqs :
          (reqs[r].pc # "idle" /\ MissingParam(reqs[r]))
          => reqs[r].pc = "done" /\ reqs[r].resp.status = 400)
  /\ [][\A r \in Reqs :
          (Steps(r) /\ MissingParam(reqs'[r])) => visits' = visits]_vars

----------------------------------------------------------------------------
(* Requests the limiter rejects: claim C23 *)

\* the limiter answered the request
Rejected(r) == reqs[r].resp.status = 429

\* C23: a request the limiter answers 429 is answered as it is received and
\* takes no further step; it has no row of its own, returned none and no
\* notification was attempted for it; the step that rejects it leaves the
\* table and the notifications as they are.
C23_RejectedLeavesStore ==
  /\ [](\A r \in Reqs :
          Rejected(r) => /\ reqs[r].pc = "done"
                         /\ reqs[r].resp = TooMany
                         /\ reqs[r].rows = <<>>
                         /\ \A v \in visits : v.id # reqs[r].id
                         /\ ~Notified(r))
  /\ [][\A r \in Reqs :
          /\ Rejected(r) => reqs'[r] = reqs[r]
          /\ (Steps(r) /\ reqs'[r].resp.status = 429)
               => visits' = visits /\ mail' = mail]_vars

\* a check-out of the active visit the table holds was rejected, the visit
\* is still active, and a check-in admitted before was notified
C23_Witness ==
  /\ \E r \in Reqs :
       /\ IsCheckout(r) /\ Rejected(r)
       /\ \E v \in visits : v.id = Target(r) /\ v.check_out = NullTs
  /\ \E m \in mail : m.subject = "IN"

----------------------------------------------------------------------------
(* Check-ins answered with an error: claim C24 *)

\* C24: a check-in answered 400 or 500 has no row in the table.
C24_ErrorMeansNoVisit ==
  \A r \in Reqs :
    (IsCheckin(r) /\ reqs[r].pc = "done" /\ reqs[r].resp.status \in {400, 500})
    => InsertedBy(r) = {}

----------------------------------------------------------------------------
(* Co-activity of concurrent check-ins: claim C25 *)

\* two check-ins at one site, both with status "IN", both answered 201,
\* their visits checked in on the same UTC day and both still active
PairAtSite(r, o) ==
  /\ r # o /\ IsCheckin(r) /\ IsCheckin(o)
  /\ reqs[r].pc = "done" /\ reqs[o].pc = "done"
  /\ reqs[r].resp.status = 201 /\ reqs[o].resp.status = 201
  /\ Truthy(reqs[r].body.powerPlant)
  /\ reqs[r].body.powerPlant = reqs[o].body.powerPlant
  /\ reqs[r].body.status = JsStr(<<"I","N">>)
  /\ reqs[o].body.status = JsStr(<<"I","N">>)
  /\ UtcDate(reqs[r].rows[1].check_in) = UtcDate(reqs[o].rows[1].check_in)
  /\ \E v \in InsertedBy(r) : v.check_out = NullTs
  /\ \E v \in InsertedBy(o) : v.check_out = NullTs

\* C25 as stated: of two such check-ins, in every interleaving of their
\* steps, at least one was answered coActivity = true.
C25_CoActivityNeverMissed ==
  \A r, o \in Reqs :
    PairAtSite(r, o) => reqs[r].resp.coActivity \/ reqs[o].resp.coActivity

\* C25, amended: of two such check-ins answered while the UTC day of their
\* check-in lasts (so that both count queries ran on that day), at least
\* one was answered coActivity = true.
C25_CoActivitySeenWithinDay ==
  \A r, o \in Reqs :
    (PairAtSite(r, o) /\ UtcDate(now) = UtcDate(reqs[r].rows[1].check_in))
    => reqs[r].resp.coActivity \/ reqs[o].resp.coActivity

\* two such check-ins on an empty site, answered on the day of their
\* check-in, one without and one with coActivity
C25_Witness ==
  \E r, o \in Reqs :
    /\ PairAtSite(r, o) /\ UtcDate(now) = UtcDate(reqs[r].rows[1].check_in)
    /\ ~reqs[r].resp.coActivity /\ reqs[o].resp.coActivity
    /\ \A v \in visits : v.id \in {reqs[r].id, reqs[o].id}

----------------------------------------------------------------------------
(* The form's submit limiter: claims C26 and C27 *)

\* the calls of ApiService.checkIn in the window that starts at t
SentIn(t) == {i \in 1..Len(sent) : t <= sent[i] /\ sent[i] < t + WindowMs}

\* C26: no window of windowMs holds more than five calls of
\* ApiService.checkIn.
C26_AtMostFivePerWindow ==
  \A t \in 0..MaxDate : Cardinality(SentIn(t)) <= SubmitMax

\* the submit lock is active: submitLockedUntil is set and in the future
LockActive == submitLockedUntil # NullMs /\ dateNow < submitLockedUntil

\* the step is a call of the handler op
Handles(op) == lastOp'.op = op /\ formVars' # formVars

\* C27: while the lock is active no step sends a request or records an
\* attempt; a tick of the countdown at or after the lock time leaves
\* submitLockedUntil null and countdownSeconds 0; onCheckIn of a valid
\* form that is not locked sends a request; and an active lock ends.
C27_LockHoldsAndEnds ==
  /\ [][LockActive => sent' = sent /\ submitAttemptTimes' = submitAttemptTimes]_vars
  /\ [][(Handles("tick") /\ submitLockedUntil # NullMs /\ dateNow >= submitLockedUntil)
         => submitLockedUntil' = NullMs /\ countdownSeconds' = 0]_vars
  /\ [][(Handles("onCheckIn") /\ ~LockActive /\ ~FormInvalid /\ TechnicianNames # <<>>)
         => sent' = Append(sent, dateNow)]_vars
  /\ (LockActive ~> ~LockActive)

\* the countdown has released a lock and a request was sent after it
C27_Witness ==
  /\ lastOp.op = "onCheckIn" /\ lastOp.outcome = "sent"
  /\ Len(sent) > SubmitMax
  /\ submitLockedUntil = NullMs /\ countdownSeconds = 0
  /\ Len(submitAttemptTimes) = 1

----------------------------------------------------------------------------
(* The form's technicians list: claim C28 *)

\* C28: the technicians FormArray has at least one row.
C28_TechniciansNeverEmpty == Len(techniciansFA) >= 1

\* removeTechnician was called on a list of one row, the row left of a
\* list restored from localStorage
C28_Witness ==
  /\ lastOp.op = "removeTechnician" /\ lastOp.before = 1
  /\ techniciansFA = <<Row(<<"b">>, FALSE)>>

====
